---- MODULE Spec2Model ----
(***************************************************************************)
(* ruy/apply_multiplier.cc: the scalar fixed-point rescaling primitive.    *)
(*                                                                         *)
(*   TFMultiplyByQuantizedMultiplier(x, quantized_multiplier, shift)       *)
(*       the single-rounding-shift baseline rounder                        *)
(*   MultiplyByQuantizedMultiplier(x, mul, shift)                          *)
(*       the entry point: two function-local statics (the rounding mode QR *)
(*       and show_data_bool) resolved from the environment, optional       *)
(*       tracing, and the dispatch to the baseline or the EV rounding      *)
(*                                                                         *)
(* TLC's integers are 32 bits wide, so the 64-bit values of the code are   *)
(* two's-complement words: sequences of bytes, least significant first.    *)
(* The same byte arithmetic at 16 bytes serves as the unbounded integers   *)
(* the properties are stated in (no operand here comes near 2^127).        *)
(***************************************************************************)
EXTENDS Integers, Sequences, FiniteSets, TLC

(***************************************************************************)
(* Two's-complement words                                                  *)
(***************************************************************************)

\* The word of n bytes holding the integer v (sign-extended).
RECURSIVE Bytes(_, _)
Bytes(v, n) ==
    IF n = 0 THEN <<>> ELSE <<v % 256>> \o Bytes(v \div 256, n - 1)

IsNeg(a) == a[Len(a)] >= 128

\* Sign extension of a to n bytes (n >= Len(a)).
RECURSIVE Fill(_, _)
Fill(b, n) == IF n = 0 THEN <<>> ELSE <<b>> \o Fill(b, n - 1)

SExt(a, n) == a \o Fill(IF IsNeg(a) THEN 255 ELSE 0, n - Len(a))

\* Zero extension of a to n bytes (n >= Len(a)).
ZExt(a, n) == a \o Fill(0, n - Len(a))

\* The low n bytes of a.
Trunc(a, n) == SubSeq(a, 1, n)

RECURSIVE AddC(_, _, _)
AddC(a, b, c) ==
    IF a = <<>> THEN <<>>
    ELSE LET s == Head(a) + Head(b) + c
         IN  <<s % 256>> \o AddC(Tail(a), Tail(b), s \div 256)

\* a + b, a - b, -a and a * b modulo 2^(8 * Len(a)).
Add(a, b) == AddC(a, b, 0)

RECURSIVE Not(_)
Not(a) == IF a = <<>> THEN <<>> ELSE <<255 - Head(a)>> \o Not(Tail(a))

Sub(a, b) == AddC(a, Not(b), 1)

Neg(a) == Sub(Bytes(0, Len(a)), a)

RECURSIVE Conv(_, _, _, _)
Conv(a, b, k, i) ==
    IF i > k THEN 0 ELSE a[i] * b[k + 1 - i] + Conv(a, b, k, i + 1)

RECURSIVE MulC(_, _, _, _)
MulC(a, b, k, c) ==
    IF k > Len(a) THEN <<>>
    ELSE LET s == c + Conv(a, b, k, 1)
         IN  <<s % 256>> \o MulC(a, b, k + 1, s \div 256)

Mul(a, b) == MulC(a, b, 1, 0)

\* a << n, for 0 <= n < 8 * Len(a): whole bytes first, then k < 8 bits.
RECURSIVE ShlBits(_, _, _)
ShlBits(a, k, c) ==
    IF a = <<>> THEN <<>>
    ELSE LET s == Head(a) * 2^k + c
         IN  <<s % 256>> \o ShlBits(Tail(a), k, s \div 256)

Shl(a, n) ==
    ShlBits(Fill(0, n \div 8) \o SubSeq(a, 1, Len(a) - n \div 8), n % 8, 0)

\* a >> n, arithmetic (the sign bit is copied in), for 0 <= n < 8 * Len(a):
\* whole bytes first, then k < 8 bits.
RECURSIVE SarBits(_, _, _)
SarBits(a, k, top) ==
    IF a = <<>> THEN <<>>
    ELSE LET next == IF Len(a) = 1 THEN top ELSE a[2]
         IN  <<(Head(a) \div 2^k) + (next % 2^k) * 2^(8 - k)>>
                 \o SarBits(Tail(a), k, top)

Sar(a, n) ==
    LET fill == IF IsNeg(a) THEN 255 ELSE 0
    IN  SarBits(SubSeq(a, n \div 8 + 1, Len(a)) \o Fill(fill, n \div 8),
                n % 8, fill)

\* a & 1.
And1(a) == <<a[1] % 2>> \o Fill(0, Len(a) - 1)

\* Signed a < b and a <= b, for words of one length.
SLess(a, b) ==
    LET n == Len(a)
        key(w, i) == IF i = n THEN (w[i] + 128) % 256 ELSE w[i]
    IN  \E i \in 1..n :
            /\ key(a, i) < key(b, i)
            /\ \A j \in (i + 1)..n : a[j] = b[j]

SLeq(a, b) == a = b \/ SLess(a, b)

\* The integer a 4-byte word holds.
ToInt(a) ==
    a[1] + 256 * a[2] + 65536 * a[3]
         + 16777216 * (IF a[4] >= 128 THEN a[4] - 256 ELSE a[4])


(***************************************************************************)
(* Fixed-width views                                                       *)
(***************************************************************************)

\* std::numeric_limits<std::int32_t>::lowest() and ::max().
INT32_MIN == -2147483647 - 1

INT32_MAX == 2147483647

\* std::int64_t(v) of a 32-bit value v.
I64(v) == Bytes(v, 8)

\* The properties' integers.
Wide(v) == Bytes(v, 16)

WideOf(a) == SExt(a, 16)

\* static_cast<std::int32_t>(r) of a 64-bit r: the low 32 bits.
Narrow32(r) == ToInt(Trunc(r, 4))

\* lowest() <= r <= max(), r a 64-bit value.
InInt32(r) == SLeq(I64(INT32_MIN), r) /\ SLeq(r, I64(INT32_MAX))

(***************************************************************************)
(* TFMultiplyByQuantizedMultiplier, lines 50-68                            *)
(***************************************************************************)

\* A variant with the upper check one too high.
TFShiftOk_Loose(sh) == sh >= -31 /\ sh <= 8

\* RUY_CHECK_GE(shift, -31); RUY_CHECK_LE(shift, 7): both pass.
TFShiftOk(sh) == sh >= -31 /\ sh <= 7

TotalShift(sh) == 31 - sh

\* A variant with a whole unit, not half a unit, as the rounding term.
TFRound_WholeUnit(total_shift) == Shl(I64(1), total_shift)

\* round = (int64_t)1 << (total_shift - 1)
TFRound(total_shift) == Shl(I64(1), total_shift - 1)

\* A variant that multiplies in 32 bits and widens the product.
TFProduct_Int32(xv, m) == SExt(Mul(Bytes(xv, 4), Bytes(m, 4)), 8)

\* x_64 * quantized_multiplier_64
TFProduct(xv, m) == Mul(I64(xv), I64(m))

\* result = x_64 * quantized_multiplier_64 + round
TFSum(xv, m, sh) == Add(TFProduct(xv, m), TFRound(TotalShift(sh)))

\* result = result >> total_shift
TFResult(xv, m, sh) == Sar(TFSum(xv, m, sh), TotalShift(sh))

\* RUY_DCHECK_GE(result, lowest()); RUY_DCHECK_LE(result, max()): compiled
\* in debug builds only.
TFDcheckFails(bld, r) == bld = "debug" /\ ~InInt32(r)

(***************************************************************************)
(* The EV rounding of MultiplyByQuantizedMultiplier, lines 103-116         *)
(***************************************************************************)

\* unsigned(shift), converted to signed long long by the multiplication.
UnsignedShift(sh) == ZExt(Bytes(sh, 4), 8)

\* The shifts of LL_ROUND(acc, unsigned(shift)) are defined for counts
\* 0 <= n < 64: unsigned(shift) - 1 wraps to 2^32 - 1 at shift = 0, and
\* unsigned(shift) is 2^32 + shift for a negative shift.
EvDefined(sh) == sh >= 1 /\ sh <= 63

\* acc = SLL(x); acc *= unsigned(shift)
EvAcc(xv, sh) == Mul(I64(xv), UnsignedShift(sh))

\* LLSHL1(x) == 1LL << x
LLSHL1(n) == Shl(I64(1), n)

\* A variant that rounds halves up.
LL_ROUND_HalfUp(X, sh) == Sar(Add(X, LLSHL1(sh - 1)), sh)

\* LL_ROUND(X, shift) ==
\*    (X + ((X >> shift) & 1) + (LLSHL1(shift - 1) - 1)) >> shift
LL_ROUND(X, sh) ==
    Sar(Add(Add(X, And1(Sar(X, sh))), Sub(LLSHL1(sh - 1), I64(1))), sh)

\* The number of significant bits of a non-negative word.
BitLen(a) ==
    LET nz == {i \in 1..Len(a) : a[i] # 0}
        hi == CHOOSE i \in nz : \A j \in nz : j <= i
    IN  IF nz = {} THEN 0
        ELSE 8 * (hi - 1) + (CHOOSE k \in 1..8 : 2^(k - 1) <= a[hi] /\ a[hi] < 2^k)

\* A 64-bit integer rounded to a binary floating-point value of p mantissa
\* bits (round to nearest, ties to even), as the integer it then holds.
FloatRound(v, p) ==
    LET w   == SExt(v, 9)
        mag == IF IsNeg(w) THEN Neg(w) ELSE w
        d   == BitLen(mag) - p
        one == Bytes(1, 9)
        rnd == IF d <= 0 THEN mag
               ELSE Shl(Sar(Add(Add(mag, And1(Sar(mag, d))),
                                Sub(Shl(one, d - 1), one)), d), d)
    IN  IF IsNeg(w) THEN Neg(rnd) ELSE rnd

\* double(v): 53 mantissa bits.
ToDouble(v) == FloatRound(v, 53)

\* x = double(...): the double (an integer here) converted to int32_t; the
\* conversion is defined when the value is in the int32_t range.
DoubleInInt32(dv) ==
    SLeq(Bytes(INT32_MIN, 9), dv) /\ SLeq(dv, Bytes(INT32_MAX, 9))

EvRounded(xv, sh) == ToDouble(LL_ROUND(EvAcc(xv, sh), sh))

\* What an undefined shift or an out-of-range conversion may leave in x.
UndefValues == {INT32_MIN, 0, INT32_MAX}


(***************************************************************************)
(* The process                                                             *)
(***************************************************************************)

\* The most threads that call concurrently, and the most calls one thread
\* makes in a sequential run.
NumThreads == 2

MaxCalls == 2

Threads == 1..NumThreads

\* getenv's result: the null pointer, or the string (a one-element tuple).
NULL == <<>>

Str(s) == <<s>>

QRValues == {NULL, Str(""), Str("EV"), Str("DOUBLE")}

ShowValues == {NULL, Str(""), Str("1")}

\* The arguments the calls are made with.
XValues ==
    {INT32_MIN, INT32_MIN + 1, -1000, -6, -3, -1, 0, 1, 2, 3, 4, 5, 6, 12,
     1000, INT32_MAX - 1, INT32_MAX}

MulValues == {INT32_MIN, -1073741824, -1, 0, 1, 536870912, 1073741824, INT32_MAX}

TFShifts == (-33)..9

ApplyMuls == {INT32_MIN, 0, 1073741824, INT32_MAX}

ApplyShifts == {-32, -31, 0} \cup (1..8) \cup {63, 64}

TFArgs == XValues \X MulValues \X TFShifts

ApplyArgs == XValues \X ApplyMuls \X ApplyShifts

\* Several calls in a row: a tie of each rounding and a shift out of range.
FewArgs == {<<3, 1073741824, 0>>, <<-3, 1073741824, 1>>, <<1, 0, 8>>}

\* Concurrent first calls.
MTArgs == {<<3, 1073741824, 1>>}

\* What printf prints for a %d that has no argument.
Garbage == {0, 1}

VARIABLES
    env,            \* TF_QUANTIZED_ROUND and TF_SHOW_DATA in the environment
    build,          \* "debug" or "release" (NDEBUG): whether RUY_DCHECK is compiled
    guard,          \* of each function-local static: "uninit", "running", "done"
    QR,             \* static const Rmode QR
    show_data_bool, \* static bool show_data_bool
    reads,          \* how often getenv has read each variable
    out,            \* what printf has written, in order
    proc,           \* "running", or the check that ended the process
    pc,             \* where each thread is
    caller,         \* who last called TFMultiplyByQuantizedMultiplier: "Apply" or "direct"
    args,           \* the arguments <<x, mul, shift>> of each thread's call
    x,              \* the parameter x of each thread's call, assigned at line 100 or 113
    mode,           \* the QR each thread's switch read
    traced,         \* the show_data_bool each thread's call read at line 95
    result,         \* the local result of TFMultiplyByQuantizedMultiplier, <<>> before line 61
    ret,            \* what each thread's call returned, <<>> before it returns
    defined,        \* FALSE once the thread's call has run an undefined operation
    mark,           \* Len(out) when each thread's call began
    ncalls          \* the calls each thread has begun

vars ==
    <<env, build, guard, QR, show_data_bool, reads, out, proc, pc, caller,
      args, x, mode, traced, result, ret, defined, mark, ncalls>>

statics == <<guard, QR, show_data_bool, reads>>

Line(k, t, when, a, b) == [k |-> k, t |-> t, when |-> when, a |-> a, b |-> b]

Idle == [t \in Threads |-> "idle"]

InitCommon ==
    /\ build \in {"debug", "release"}
    \* static storage is zero-initialized: R_double_round is 0, false is 0
    /\ guard = [QR |-> "uninit", show |-> "uninit"]
    /\ QR = "R_double_round"
    /\ show_data_bool = FALSE
    /\ reads = [QR |-> 0, show |-> 0]
    /\ out = <<>>
    /\ proc = "running"
    /\ mode = [t \in Threads |-> "none"]
    /\ traced = [t \in Threads |-> FALSE]
    /\ result = [t \in Threads |-> <<>>]
    /\ ret = [t \in Threads |-> <<>>]
    /\ defined = [t \in Threads |-> TRUE]
    /\ mark = [t \in Threads |-> 0]

\* The process has started and no call has been made.
Init ==
    /\ InitCommon
    /\ env \in [QR : QRValues, show : ShowValues]
    /\ pc = Idle
    /\ caller = [t \in Threads |-> "none"]
    /\ args = [t \in Threads |-> <<0, 0, 0>>]
    /\ x = [t \in Threads |-> 0]
    /\ ncalls = [t \in Threads |-> 0]

\* Thread 1 has called TFMultiplyByQuantizedMultiplier itself.
InitTF ==
    /\ InitCommon
    /\ env = [QR |-> NULL, show |-> NULL]
    /\ \E a \in TFArgs : args = [t \in Threads |-> IF t = 1 THEN a ELSE <<0, 0, 0>>]
    /\ x = [t \in Threads |-> args[t][1]]
    /\ pc = [Idle EXCEPT ![1] = "tf_check"]
    /\ caller = [t \in Threads |-> IF t = 1 THEN "direct" ELSE "none"]
    /\ ncalls = [t \in Threads |-> IF t = 1 THEN 1 ELSE 0]


(***************************************************************************)
(* MultiplyByQuantizedMultiplier, lines 75-119, one thread's steps         *)
(***************************************************************************)

\* A variant without the static: the initializer runs at every call.
MustInitialize_EveryCall(g) == TRUE

\* A variant without the guard's lock: whoever finds the static not yet
\* initialized runs the initializer.
MustInitialize_Unlocked(g) == g # "done"

\* A function-local static with a dynamic initializer: the thread that finds
\* it uninitialized runs the initializer, a thread that finds another one
\* running it waits, and one that finds it initialized goes on.
MustInitialize(g) == g = "uninit"

MustWait(g) == g = "running"

\* The lambda tell, lines 79-85: the mode, and whether it prints.
TellMode(v) ==
    IF v = NULL THEN "R_double_round"
    ELSE IF v = Str("EV") THEN "R_ev_round" ELSE "R_double_round"

\* A variant that stays silent for the empty string.
TellPrints_NonEmpty(v) == v # NULL /\ v # Str("EV") /\ v # Str("")

TellPrints(v) == v # NULL /\ v # Str("EV")

\* A variant that asks for a non-empty value.
ShowData_NonEmpty(v) == v # NULL /\ v # Str("")

\* getenv("TF_SHOW_DATA") != 0
ShowData(v) == v # NULL

\* The caller passes <<x, mul, shift>>.
Call(t, Args, limit) ==
    /\ proc = "running"
    /\ pc[t] = "idle"
    /\ ncalls[t] < limit
    /\ \E a \in Args :
        /\ args' = [args EXCEPT ![t] = a]
        /\ x' = [x EXCEPT ![t] = a[1]]
    /\ pc' = [pc EXCEPT ![t] = "QR"]
    /\ caller' = [caller EXCEPT ![t] = "none"]
    /\ mode' = [mode EXCEPT ![t] = "none"]
    /\ traced' = [traced EXCEPT ![t] = FALSE]
    /\ result' = [result EXCEPT ![t] = <<>>]
    /\ ret' = [ret EXCEPT ![t] = <<>>]
    /\ defined' = [defined EXCEPT ![t] = TRUE]
    /\ mark' = [mark EXCEPT ![t] = Len(out)]
    /\ ncalls' = [ncalls EXCEPT ![t] = @ + 1]
    /\ UNCHANGED <<env, build, statics, out, proc>>

\* Line 86, static const Rmode QR = tell(): reaching the declaration.
StaticQR(t) ==
    /\ proc = "running"
    /\ pc[t] = "QR"
    /\ ~(~MustInitialize(guard.QR) /\ MustWait(guard.QR))
    /\ IF MustInitialize(guard.QR)
       THEN /\ guard' = [guard EXCEPT !.QR = "running"]
            /\ pc' = [pc EXCEPT ![t] = "tell"]
       ELSE /\ pc' = [pc EXCEPT ![t] = "show"]
            /\ UNCHANGED guard
    /\ UNCHANGED <<env, build, QR, show_data_bool, reads, out, proc, caller,
                   args, x, mode, traced, result, ret, defined, mark, ncalls>>

\* Lines 79-86: the initializer tell() runs and QR is initialized.
Tell(t) ==
    /\ proc = "running"
    /\ pc[t] = "tell"
    /\ reads' = [reads EXCEPT !.QR = @ + 1]
    /\ QR' = TellMode(env.QR)
    /\ out' = IF TellPrints(env.QR)
              THEN Append(out, Line("unrecognized", t, env.QR[1], 0, 0))
              ELSE out
    /\ guard' = [guard EXCEPT !.QR = "done"]
    /\ pc' = [pc EXCEPT ![t] = "show"]
    /\ UNCHANGED <<env, build, show_data_bool, proc, caller, args, x, mode,
                   traced, result, ret, defined, mark, ncalls>>

\* Line 88, static bool show_data_bool = ...: reaching the declaration.
StaticShow(t) ==
    /\ proc = "running"
    /\ pc[t] = "show"
    /\ ~(~MustInitialize(guard.show) /\ MustWait(guard.show))
    /\ IF MustInitialize(guard.show)
       THEN /\ guard' = [guard EXCEPT !.show = "running"]
            /\ pc' = [pc EXCEPT ![t] = "getshow"]
       ELSE /\ pc' = [pc EXCEPT ![t] = "operands"]
            /\ UNCHANGED guard
    /\ UNCHANGED <<env, build, QR, show_data_bool, reads, out, proc, caller,
                   args, x, mode, traced, result, ret, defined, mark, ncalls>>

\* Line 88: the initializer runs and show_data_bool is initialized.
GetShow(t) ==
    /\ proc = "running"
    /\ pc[t] = "getshow"
    /\ reads' = [reads EXCEPT !.show = @ + 1]
    /\ show_data_bool' = ShowData(env.show)
    /\ guard' = [guard EXCEPT !.show = "done"]
    /\ pc' = [pc EXCEPT ![t] = "operands"]
    /\ UNCHANGED <<env, build, QR, out, proc, caller, args, x, mode, traced,
                   result, ret, defined, mark, ncalls>>

\* Line 95, if (show_data_bool) printf("mul=%d, shift=%d\n"): the two %d
\* have no arguments, and what is printed for them is indeterminate.
Operands(t) ==
    /\ proc = "running"
    /\ pc[t] = "operands"
    /\ traced' = [traced EXCEPT ![t] = show_data_bool]
    /\ IF show_data_bool
       THEN \E g1, g2 \in Garbage :
                out' = Append(out, Line("operands", t, "", g1, g2))
       ELSE out' = out
    /\ pc' = [pc EXCEPT ![t] = "before"]
    /\ UNCHANGED <<env, build, statics, proc, caller, args, x, mode, result,
                   ret, defined, mark, ncalls>>

\* A variant that prints whatever show_data_bool is.
ShowDataOut_Always(t, when) == Append(out, Line("data", t, when, x[t], 0))

\* The lambda show_data, lines 89-93: "Data <when>" and "x = <x>".
ShowDataOut(t, when) ==
    IF show_data_bool THEN Append(out, Line("data", t, when, x[t], 0)) ELSE out

\* Lines 97-100 and 109: switch (QR), then
\* if (show_data_bool) show_data("before scaling {"), and in case
\* R_double_round the call of TFMultiplyByQuantizedMultiplier.
Before(t) ==
    /\ proc = "running"
    /\ pc[t] = "before"
    /\ mode' = [mode EXCEPT ![t] = QR]
    /\ out' = ShowDataOut(t, "before scaling {")
    /\ IF QR = "R_double_round"
       THEN /\ caller' = [caller EXCEPT ![t] = "Apply"]
            /\ pc' = [pc EXCEPT ![t] = "tf_check"]
       ELSE /\ pc' = [pc EXCEPT ![t] = "ev_round"]
            /\ UNCHANGED caller
    /\ UNCHANGED <<env, build, statics, proc, args, x, traced, result, ret,
                   defined, mark, ncalls>>

\* Lines 53-54: the two RUY_CHECKs; a failed one ends the process.
TFCheck(t) ==
    /\ proc = "running"
    /\ pc[t] = "tf_check"
    /\ IF TFShiftOk(args[t][3])
       THEN /\ pc' = [pc EXCEPT ![t] = "tf_arith"]
            /\ UNCHANGED proc
       ELSE /\ proc' = "RUY_CHECK"
            /\ UNCHANGED pc
    /\ UNCHANGED <<env, build, statics, out, caller, args, x, mode, traced,
                   result, ret, defined, mark, ncalls>>

\* Lines 56-67: the arithmetic, the debug-only range checks and the return
\* of static_cast<std::int32_t>(result), to line 100 or to the direct caller.
TFArith(t) ==
    /\ proc = "running"
    /\ pc[t] = "tf_arith"
    /\ LET r == TFResult(x[t], args[t][2], args[t][3])
       IN  /\ result' = [result EXCEPT ![t] = r]
           /\ IF TFDcheckFails(build, r)
              THEN /\ proc' = "RUY_DCHECK"
                   /\ UNCHANGED <<pc, x, ret>>
              ELSE /\ UNCHANGED proc
                   /\ IF caller[t] = "direct"
                      THEN /\ ret' = [ret EXCEPT ![t] = <<Narrow32(r)>>]
                           /\ pc' = [pc EXCEPT ![t] = "idle"]
                           /\ UNCHANGED x
                      ELSE /\ x' = [x EXCEPT ![t] = Narrow32(r)]
                           /\ pc' = [pc EXCEPT ![t] = "after"]
                           /\ UNCHANGED ret
    /\ UNCHANGED <<env, build, statics, out, caller, args, mode, traced,
                   defined, mark, ncalls>>

\* Lines 111-113, case R_ev_round:
\* acc = SLL(x); acc *= unsigned(shift); x = double(LL_ROUND(acc, unsigned(shift))).
EvRound(t) ==
    /\ proc = "running"
    /\ pc[t] = "ev_round"
    /\ LET sh == args[t][3]
       IN  IF EvDefined(sh) /\ DoubleInInt32(EvRounded(x[t], sh))
           THEN /\ x' = [x EXCEPT ![t] = ToInt(Trunc(EvRounded(x[t], sh), 4))]
                /\ UNCHANGED defined
           ELSE /\ \E v \in UndefValues : x' = [x EXCEPT ![t] = v]
                /\ defined' = [defined EXCEPT ![t] = FALSE]
    /\ pc' = [pc EXCEPT ![t] = "after"]
    /\ UNCHANGED <<env, build, statics, out, proc, caller, args, mode, traced,
                   result, ret, mark, ncalls>>

\* Lines 101 and 115, if (show_data_bool) show_data("after scaling }"),
\* and line 118, return x.
After(t) ==
    /\ proc = "running"
    /\ pc[t] = "after"
    /\ out' = ShowDataOut(t, "after scaling }")
    /\ ret' = [ret EXCEPT ![t] = <<x[t]>>]
    /\ pc' = [pc EXCEPT ![t] = "idle"]
    /\ UNCHANGED <<env, build, statics, proc, caller, args, x, mode, traced,
                   result, defined, mark, ncalls>>

\* The program changes one of the two environment variables (setenv,
\* unsetenv) between two calls.
SetEnv ==
    /\ proc = "running"
    /\ \A t \in Threads : pc[t] = "idle"
    /\ \/ \E v \in QRValues \ {env.QR} : env' = [env EXCEPT !.QR = v]
       \/ \E v \in ShowValues \ {env.show} : env' = [env EXCEPT !.show = v]
    /\ UNCHANGED <<build, statics, out, proc, pc, caller, args, x, mode, traced,
                   result, ret, defined, mark, ncalls>>

(***************************************************************************)
(* Specifications                                                          *)
(***************************************************************************)

\* One thread calls MultiplyByQuantizedMultiplier several times in a row and
\* changes the environment between the calls.
Next ==
    \/ Call(1, FewArgs, MaxCalls)
    \/ StaticQR(1) \/ Tell(1) \/ StaticShow(1) \/ GetShow(1)
    \/ Operands(1) \/ Before(1) \/ TFCheck(1) \/ TFArith(1)
    \/ EvRound(1) \/ After(1)
    \/ SetEnv

Spec == Init /\ [][Next]_vars

\* One call of MultiplyByQuantizedMultiplier, over the wide set of arguments.
NextApply ==
    \/ Call(1, ApplyArgs, 1)
    \/ StaticQR(1) \/ Tell(1) \/ StaticShow(1) \/ GetShow(1)
    \/ Operands(1) \/ Before(1) \/ TFCheck(1) \/ TFArith(1)
    \/ EvRound(1) \/ After(1)

SpecApply == Init /\ [][NextApply]_vars

\* One direct call of TFMultiplyByQuantizedMultiplier.
NextTF == TFCheck(1) \/ TFArith(1)

SpecTF == InitTF /\ [][NextTF]_vars

\* Every thread makes its first call, concurrently with the others.
NextMT ==
    \E t \in Threads :
        \/ Call(t, MTArgs, 1)
        \/ StaticQR(t) \/ Tell(t) \/ StaticShow(t) \/ GetShow(t)
        \/ Operands(t) \/ Before(t) \/ TFCheck(t) \/ TFArith(t)
        \/ EvRound(t) \/ After(t)

SpecMT == Init /\ [][NextMT]_vars


(***************************************************************************)
(* Properties                                                              *)
(***************************************************************************)

\* The exact product x * multiplier of a call's arguments.
ExactProduct(a) == Mul(Wide(a[1]), Wide(a[2]))

InInt32Wide(F) == SLeq(Wide(INT32_MIN), F) /\ SLeq(F, Wide(INT32_MAX))

\* r is the integer nearest to P / 2^n, the upper one of the two when P / 2^n
\* lies halfway between two integers:  -2^(n-1) <= P - r * 2^n < 2^(n-1).
NearestTiesUp(P, n, r) ==
    LET D == Sub(P, Shl(r, n))
        H == Shl(Wide(1), n - 1)
    IN  SLeq(Neg(H), D) /\ SLess(D, H)

\* r is the integer nearest to P / 2^n, the even one of the two when P / 2^n
\* lies halfway between two integers.
NearestTiesEven(P, n, r) ==
    LET D == Sub(P, Shl(r, n))
        H == Shl(Wide(1), n - 1)
    IN  /\ SLeq(Neg(H), D)
        /\ SLeq(D, H)
        /\ (D = H \/ D = Neg(H)) => r[1] % 2 = 0

\* C1 as claimed: for every x, every multiplier and every shift in
\* [-31, 7], the value TFMultiplyByQuantizedMultiplier returns is
\* floor((x * multiplier + 2^(30 - shift)) / 2^(31 - shift)), the product
\* rounded to the nearest integer with ties toward +infinity.
C1_ReturnsNearestTiesUp ==
    \A t \in Threads :
        (caller[t] = "direct" /\ ret[t] # <<>>) =>
            NearestTiesUp(ExactProduct(args[t]), TotalShift(args[t][3]),
                          Wide(ret[t][1]))

\* C1 as amended: the 64-bit result is that rounded value F; the function
\* returns F when F is in the signed 32-bit range, and otherwise a debug
\* build ends the process at the range check and a release build returns
\* the low 32 bits of F.
C1_NearestTiesUpWhenInRange ==
    \A t \in Threads :
        (caller[t] = "direct" /\ result[t] # <<>>) =>
            LET F == WideOf(result[t])
            IN  /\ NearestTiesUp(ExactProduct(args[t]), TotalShift(args[t][3]), F)
                /\ InInt32Wide(F) => ret[t] # <<>> /\ Wide(ret[t][1]) = F
                /\ ~InInt32Wide(F) =>
                      IF build = "debug"
                      THEN proc = "RUY_DCHECK" /\ ret[t] = <<>>
                      ELSE ret[t] # <<>> /\ Bytes(ret[t][1], 4) = Trunc(F, 4)

\* C1's case: -3 * 2^30 / 2^31 = -1.5 has been rounded to -1.
C1_Witness ==
    /\ caller[1] = "direct"
    /\ args[1] = <<-3, 1073741824, 0>>
    /\ ret[1] = <<-1>>

C10_NoOverflowInRange ==
    \A t \in Threads :
        (caller[t] = "direct" /\ result[t] # <<>>) =>
            LET m  == args[t][2]
                sh == args[t][3]
                F  == WideOf(result[t])
            IN  /\ (m >= 0 /\ sh <= 0) =>
                      /\ WideOf(TFSum(args[t][1], m, sh))
                            = Add(ExactProduct(args[t]), Shl(Wide(1), 30 - sh))
                      /\ InInt32Wide(F)
                      /\ proc = "running"
                      /\ ret[t] # <<>> /\ Wide(ret[t][1]) = F
                /\ ~InInt32Wide(F) => (sh > 0 \/ m < 0)

\* C10's case: the largest operands at shift 0.
C10_Witness ==
    /\ caller[1] = "direct"
    /\ args[1] = <<INT32_MAX, INT32_MAX, 0>>
    /\ ret[1] = <<2147483646>>


\* The call of MultiplyByQuantizedMultiplier thread t made has returned.
ApplyReturned(t) ==
    /\ ncalls[t] > 0
    /\ caller[t] # "direct"
    /\ pc[t] = "idle"
    /\ ret[t] # <<>>

IsDiag(r) == r.k = "unrecognized"

IsTrace(r) == r.k = "operands" \/ r.k = "data"

\* The "Unrecognized rounding mode" lines printed so far.
Diags == SelectSeq(out, IsDiag)

\* What has been printed since thread t's call began, by thread t.
Mine(t) ==
    LET since == SubSeq(out, mark[t] + 1, Len(out))
        byT(r) == r.t = t
    IN  SelectSeq(since, byT)

\* C3 as claimed: a call of MultiplyByQuantizedMultiplier with shift outside
\* [-31, 7] never gets past the rounding and never returns a value, in
\* either rounding mode. (A call that has run an undefined operation is
\* left aside: anything may follow it.)
C3_OutsideRangeNeverReturns ==
    \A t \in Threads :
        (ncalls[t] > 0 /\ caller[t] # "direct" /\ defined[t]
            /\ (args[t][3] < -31 \/ args[t][3] > 7)) =>
                pc[t] # "after" /\ ret[t] = <<>>

\* C4 as claimed: "EV" gives the EV rounding and no diagnostic, any other
\* non-empty value the baseline and the diagnostic, and an absent or an
\* empty value the baseline and no diagnostic.
C4_EmptyIsSilent ==
    guard.QR = "done" =>
        LET v == env.QR
        IN  /\ v = Str("EV") => QR = "R_ev_round" /\ Diags = <<>>
            /\ v \notin {NULL, Str(""), Str("EV")} =>
                   QR = "R_double_round" /\ Len(Diags) = 1
            /\ v \in {NULL, Str("")} => QR = "R_double_round" /\ Diags = <<>>

\* C4 as amended: "EV" gives the EV rounding and no diagnostic, any other
\* value that is set, the empty string too, gives the baseline and the
\* diagnostic (once, naming the value), and an absent variable gives the
\* baseline and no diagnostic.
C4_ModeResolution ==
    guard.QR = "done" =>
        LET v == env.QR
        IN  /\ v = Str("EV") => QR = "R_ev_round" /\ Diags = <<>>
            /\ v \notin {NULL, Str("EV")} =>
                   /\ QR = "R_double_round"
                   /\ Len(Diags) = 1
                   /\ Diags[1].when = v[1]
            /\ v = NULL => QR = "R_double_round" /\ Diags = <<>>

\* C4's case: the mode has been resolved from the empty string.
C4_Witness ==
    /\ guard.QR = "done"
    /\ env.QR = Str("")
    /\ QR = "R_double_round"
    /\ Len(Diags) = 1

\* C8 as claimed: the trace flag is enabled exactly when TF_SHOW_DATA has a
\* non-empty value.
C8_EnabledIffNonEmpty ==
    guard.show = "done" =>
        (show_data_bool <=> env.show \notin {NULL, Str("")})

\* C8 as amended: the trace flag is enabled exactly when TF_SHOW_DATA is
\* set, to the empty string too, and disabled only when it is absent.
C8_EnabledIffSet ==
    guard.show = "done" =>
        /\ env.show = NULL => ~show_data_bool
        /\ env.show \in {Str(""), Str("1")} => show_data_bool

\* C8's case: the flag has been resolved from the empty string.
C8_Witness ==
    /\ guard.show = "done"
    /\ env.show = Str("")
    /\ show_data_bool

\* C7: in the EV mode, a call with shift s in [1, 7] returns the integer
\* nearest to x * s / 2^s, the even one at a tie, which is
\* (x*s + ((x*s >> s) & 1) + 2^(s-1) - 1) >> s in exact arithmetic,
\* whatever the multiplier; nothing in the call is undefined.
C7_EvRoundsToEven ==
    \A t \in Threads :
        (ApplyReturned(t) /\ mode[t] = "R_ev_round" /\ args[t][3] \in 1..7) =>
            LET n == args[t][3]
                X == Mul(Wide(args[t][1]), Wide(n))
                r == Wide(ret[t][1])
            IN  /\ defined[t]
                /\ NearestTiesEven(X, n, r)
                /\ r = Sar(Add(Add(X, And1(Sar(X, n))),
                               Sub(Shl(Wide(1), n - 1), Wide(1))), n)

\* C7's case: 5 * 1 / 2 = 2.5 has been rounded to 2, with a multiplier that
\* is not 0.
C7_Witness ==
    /\ ApplyReturned(1)
    /\ mode[1] = "R_ev_round"
    /\ args[1] = <<5, 1073741824, 1>>
    /\ ret[1] = <<2>>

\* What a call in mode md with arguments a can return.
PossibleReturns(md, a) ==
    IF md = "R_double_round" THEN {Narrow32(TFResult(a[1], a[2], a[3]))}
    ELSE IF EvDefined(a[3]) THEN {ToInt(Trunc(EvRounded(a[1], a[3]), 4))}
    ELSE UndefValues

\* C9 as claimed: a call that returns with tracing enabled has printed x
\* before the rounding and then the rounded x, a call that returns with
\* tracing disabled has printed nothing at all, and what is returned does
\* not depend on tracing.
C9_DisabledPrintsNothing ==
    \A t \in Threads :
        ApplyReturned(t) =>
            LET m == Mine(t)
            IN  /\ show_data_bool =>
                    \E i, j \in 1..Len(m) :
                        /\ i < j
                        /\ m[i] = Line("data", t, "before scaling {", args[t][1], 0)
                        /\ m[j] = Line("data", t, "after scaling }", ret[t][1], 0)
                /\ ~show_data_bool => m = <<>>
                /\ ret[t][1] \in PossibleReturns(mode[t], args[t])

\* C9 as amended: a call that returns with tracing enabled has printed the
\* operands line, then x before the rounding, then the rounded x it returns,
\* and no other trace line; a call that returns with tracing disabled has
\* printed no trace line, and nothing at all but the "Unrecognized rounding
\* mode" line of the call that resolves the mode; what is returned is
\* decided by the mode and the arguments, not by tracing.
C9_TraceAroundRounding ==
    \A t \in Threads :
        ApplyReturned(t) =>
            LET m    == Mine(t)
                recs == SelectSeq(m, IsTrace)
            IN  /\ traced[t] = show_data_bool
                /\ show_data_bool =>
                    /\ Len(recs) = 3
                    /\ recs[1].k = "operands"
                    /\ recs[2] = Line("data", t, "before scaling {", args[t][1], 0)
                    /\ recs[3] = Line("data", t, "after scaling }", ret[t][1], 0)
                /\ ~show_data_bool =>
                    /\ recs = <<>>
                    /\ Len(m) <= 1
                    /\ m # <<>> => IsDiag(m[1]) /\ reads.QR = 1 /\ ncalls[t] = 1
                /\ ret[t][1] \in PossibleReturns(mode[t], args[t])

\* C9's case: a traced call in the baseline mode has returned 2 for 3 * 0.5.
C9_Witness ==
    /\ ApplyReturned(1)
    /\ show_data_bool
    /\ args[1] = <<3, 1073741824, 0>>
    /\ ret[1] = <<2>>
    /\ Len(SelectSeq(Mine(1), IsTrace)) = 3

\* C5: once a static is initialized it keeps its value and the environment
\* variable is not read again; a call that has returned has initialized
\* both; and from the second call on no call reads the environment, and each
\* uses the mode and the trace flag as they are.
C5_ResolvedOnce ==
    [][ /\ guard.QR = "done" =>
            QR' = QR /\ guard'.QR = "done" /\ reads'.QR = reads.QR
        /\ guard.show = "done" =>
            /\ show_data_bool' = show_data_bool
            /\ guard'.show = "done"
            /\ reads'.show = reads.show
        /\ ret[1] # <<>> => guard.QR = "done" /\ guard.show = "done"
        /\ ncalls[1] >= 2 =>
            /\ reads' = reads /\ reads = [QR |-> 1, show |-> 1]
            /\ pc[1] = "operands" => traced'[1] = show_data_bool
            /\ pc[1] = "before" => mode'[1] = QR
      ]_vars

\* C5's case: the second call has run in the EV mode, with tracing, after
\* both variables were removed from the environment.
C5_Witness ==
    /\ ncalls[1] = 2
    /\ ApplyReturned(1)
    /\ env = [QR |-> NULL, show |-> NULL]
    /\ mode[1] = "R_ev_round"
    /\ traced[1]
    /\ reads = [QR |-> 1, show |-> 1]

\* Thread t is past the declaration of QR, and past that of show_data_bool.
PastQR(t) ==
    \/ pc[t] \in {"show", "getshow", "operands", "before", "tf_check",
                  "tf_arith", "ev_round", "after"}
    \/ pc[t] = "idle" /\ ncalls[t] > 0

PastShow(t) ==
    \/ pc[t] \in {"operands", "before", "tf_check", "tf_arith", "ev_round", "after"}
    \/ pc[t] = "idle" /\ ncalls[t] > 0

\* C6: with concurrent first calls each environment variable is read at most
\* once and the diagnostic is printed at most once; no thread is past a
\* static's declaration before the static is initialized; and all threads
\* see the one mode and the one trace flag.
C6_OneResolution ==
    /\ reads.QR <= 1 /\ reads.show <= 1
    /\ Len(Diags) <= 1
    /\ guard.QR = "done" => reads.QR = 1
    /\ guard.show = "done" => reads.show = 1
    /\ \A t \in Threads :
        /\ PastQR(t) => guard.QR = "done"
        /\ PastShow(t) => guard.show = "done"
        /\ mode[t] # "none" => mode[t] = QR /\ QR = TellMode(env.QR)
        /\ pc[t] \in {"before", "tf_check", "tf_arith", "ev_round", "after"}
               => traced[t] = show_data_bool
    /\ \A t, u \in Threads :
        (mode[t] # "none" /\ mode[u] # "none") => mode[t] = mode[u]

\* C6's case: every thread has made its call and returned, and the
\* diagnostic has been printed.
C6_Witness ==
    /\ \A t \in Threads : ApplyReturned(t)
    /\ Len(Diags) = 1
    /\ reads = [QR |-> 1, show |-> 1]

====
